---- MODULE Spec2Model ----
(***************************************************************************)
(* State-machine model of simple_thread (simple_thread_wrapper.h) driven   *)
(* by the demonstration program (testing-app.cpp).                         *)
(*                                                                         *)
(* Threads: the worker thread spawned by start(); "main", the owner that   *)
(* calls start(), stores event1, calls notify() and stop(); "aux", any     *)
(* other thread that stores event1 and calls notify().                     *)
(*                                                                         *)
(* Time is abstract: a timeout is a value of Timeouts, and the expiry of   *)
(* the running wait is the action TimeoutExpires, which may fire whenever  *)
(* the worker is blocked on the condition variable.                        *)
(*                                                                         *)
(* start() hands its parameters to the thread through a [&] capture, so    *)
(* the thread reads timeout, pred and fx through references into start()'s *)
(* call frame and the caller's temporaries.  Once start() has returned     *)
(* (frame = "dead") such a read is a read through a dangling reference:    *)
(* it yields either the original value or any other value of the type.     *)
(***************************************************************************)
EXTENDS Naturals, FiniteSets, Sequences, TLC

\* Largest timeout value (abstract time units) given to start()/set_timeout().
MaxTimeout == 2
\* Largest number of context/flag operations one callback invocation performs.
MaxCbSteps == 3
\* Joins of the worker thread that are counted (one more than is correct).
MaxJoins == 2

Timeouts == 1..MaxTimeout
Callers == {"main", "aux"}

VARIABLES
    \* ---- simple_thread members (simple_thread_wrapper.h:255-258)
    m_thread_mutex,   \* owner of the mutex: "free", "worker", "main" or "other"
    m_thread_stop,    \* the stop flag
    joinable,         \* m_thread.joinable()
    \* ---- start()'s parameters and the caller's objects
    frame,            \* "none": not started, "live": inside start(), "dead": start() returned
    timeout,          \* the timeout argument of start()
    hasPred,          \* TRUE: the overload with a predicate bound to event1
    event1,           \* the caller's std::atomic_bool
    \* ---- the worker thread
    wpc,              \* position of the worker thread
    thread_timeout,   \* the local of the thread lambda (line 202)
    wait_res,         \* result of wait_for (line 208)
    lck_owns,         \* std::unique_lock lck: owns_lock()
    m_was_timeout,    \* simple_thread_context::m_was_timeout
    m_duration,       \* simple_thread_context::m_duration
    holder,           \* TRUE while a simple_thread_unlock_holder_impl is alive
    cbSteps,          \* operations performed by the running callback invocation
    thrown,           \* the running callback invocation has raised an error
    \* ---- main's position
    mpc,
    \* ---- uses of one instance that the interface leaves open
    second,           \* the thread made by a start() on a started instance:
                      \* "none", "running", or "terminated" (std::terminate)
    apc,              \* position of another thread's stop() call
    \* ---- history (observations only; never read by the program)
    hist

vars == <<m_thread_mutex, m_thread_stop, joinable, frame, timeout, hasPred, event1,
          wpc, thread_timeout, wait_res, lck_owns, m_was_timeout, m_duration,
          holder, cbSteps, thrown, mpc, second, apc, hist>>

ctxvars == <<m_was_timeout, m_duration>>
envvars == <<frame, timeout, hasPred, second, apc>>

WorkerPcs == {"idle", "init", "lock", "pred", "block_enter", "blocked", "wake_n",
              "wake_t", "pred_final", "check", "cb", "cb_relock", "cb_exit",
              "after", "done"}
MainPcs == {"idle", "in_start", "start_assign", "stop_lock", "stop_set",
            "stop_notify", "stop_joinable", "stop_join"}
OtherPcs == {"idle", "stop_lock", "stop_set", "stop_notify", "stop_joinable",
             "stop_join", "failed"}

\* Positions at which the worker is inside wait_for.
InWait == {"pred", "block_enter", "blocked", "wake_n", "wake_t", "pred_final"}
\* Positions at which the worker is inside the user callback.
InCallback == {"cb", "cb_relock", "cb_exit"}

Init ==
    /\ m_thread_mutex = "free"
    /\ m_thread_stop = FALSE
    /\ joinable = FALSE
    /\ frame = "none"
    /\ timeout = 0
    /\ hasPred = FALSE
    /\ event1 = FALSE
    /\ wpc = "idle"
    /\ thread_timeout = 0
    /\ wait_res = FALSE
    /\ lck_owns = FALSE
    /\ m_was_timeout = FALSE
    /\ m_duration = 0
    /\ holder = FALSE
    /\ cbSteps = 0
    /\ thrown = FALSE
    /\ mpc = "idle"
    /\ second = "none"
    /\ apc = "idle"
    /\ hist = [timedOut |-> FALSE, lastPred |-> FALSE, lastFlag |-> FALSE,
               endStop |-> FALSE, logged |-> FALSE,
               lastSet |-> 0, got |-> 0, expectNext |-> 0,
               changed |-> FALSE,
               setLate |-> FALSE, armed |-> FALSE, armedInv |-> FALSE,
               refused |-> FALSE, dangling |-> FALSE, joins |-> 0,
               stopMidCb |-> FALSE, woken |-> FALSE, cbStop |-> FALSE]

----------------------------------------------------------------------------
(* Reads through the references captured by the thread lambda.             *)

\* `timeout` as the thread reads it at line 202.
TimeoutRead == IF frame = "dead" THEN Timeouts ELSE {timeout}

PredValues_DefaultTrue ==
    IF ~hasPred THEN {TRUE}
    ELSE IF frame = "dead" THEN BOOLEAN ELSE {event1}
\* The value pred() returns.  The overload without predicate passes the
\* captureless lambda [] { return false; } (line 186), which reads no state.
PredValues ==
    IF ~hasPred THEN {FALSE}
    ELSE IF frame = "dead" THEN BOOLEAN ELSE {event1}

\* event1.load() inside the callback fx (testing-app.cpp:26).
FlagRead == IF frame = "dead" THEN BOOLEAN ELSE {event1}

\* event1 after event1.store(false) inside the callback (testing-app.cpp:28).
FlagCleared == IF frame = "dead" THEN {event1, FALSE} ELSE {FALSE}

----------------------------------------------------------------------------
(* Pure pieces of the loop and of the context.                             *)

WaitCond_StopOnly(p) == m_thread_stop
WaitCond_NoStop(p) == p
\* The wait predicate: pred() || m_thread_stop.
WaitCond(p) == p \/ m_thread_stop

StopObserved_Never == FALSE
StopObserved_UnlessPred == m_thread_stop /\ ~hist.lastPred
\* The test after the wait: if (m_thread_stop).
StopObserved == m_thread_stop

WasTimeoutOf_Plain(res) == res
\* The argument of ctx.set_was_timeout: !wait_res.
WasTimeoutOf(res) == ~res

get_timeout == m_duration

get_new_timeout_Stale == thread_timeout
get_new_timeout == m_duration

\* m_thread_cv.notify_one(): a thread blocked in the wait is woken.
NotifiedPc == IF wpc = "blocked" THEN "wake_n" ELSE wpc

----------------------------------------------------------------------------
(* The worker thread: the lambda of start(), lines 201-229.                *)

\* Line 202: thread_timeout = timeout, read through the captured reference.
ThreadInit ==
    /\ wpc = "init"
    /\ \E t \in TimeoutRead : thread_timeout' = t
    /\ wpc' = "lock"
    /\ hist' = [hist EXCEPT !.dangling = @ \/ frame = "dead"]
    /\ UNCHANGED <<m_thread_mutex, m_thread_stop, joinable, envvars, event1, wait_res,
                   lck_owns, ctxvars, holder, cbSteps, thrown, mpc>>

\* Lines 205-208: lock the mutex, build a fresh context, enter wait_for.
Lock ==
    /\ wpc = "lock"
    /\ m_thread_mutex = "free"
    /\ m_thread_mutex' = "worker"
    /\ lck_owns' = TRUE
    /\ m_was_timeout' = FALSE
    /\ m_duration' = 0
    /\ wpc' = "pred"
    /\ hist' = [hist EXCEPT !.woken = FALSE]
    /\ UNCHANGED <<m_thread_stop, joinable, envvars, event1, thread_timeout, wait_res,
                   holder, cbSteps, thrown, mpc>>

\* Lines 208-210: wait_for evaluates the predicate with the lock held, before
\* blocking and after every wake that is not a timeout; when it is satisfied
\* wait_for returns true.
WaitPred ==
    /\ wpc = "pred"
    /\ \E p \in PredValues :
         /\ IF WaitCond(p)
              THEN /\ wait_res' = TRUE
                   /\ wpc' = "check"
              ELSE /\ wpc' = "block_enter"
                   /\ UNCHANGED wait_res
         /\ hist' = [hist EXCEPT
                       !.lastPred = p, !.lastFlag = event1,
                       !.endStop = IF WaitCond(p) THEN m_thread_stop ELSE @,
                       !.setLate = FALSE,
                       !.dangling = @ \/ (hasPred /\ frame = "dead")]
    /\ UNCHANGED <<m_thread_mutex, m_thread_stop, joinable, envvars, event1,
                   thread_timeout, lck_owns, ctxvars, holder, cbSteps, thrown, mpc>>

\* Line 208: the predicate was false; the wait releases the mutex and blocks
\* on the condition variable in one atomic step.
WaitBlock ==
    /\ wpc = "block_enter"
    /\ m_thread_mutex' = "free"
    /\ lck_owns' = FALSE
    /\ wpc' = "blocked"
    /\ UNCHANGED <<m_thread_stop, joinable, envvars, event1, thread_timeout, wait_res,
                   ctxvars, holder, cbSteps, thrown, mpc, hist>>

\* Line 208: the timeout of the running wait expires.
TimeoutExpires ==
    /\ wpc = "blocked"
    /\ wpc' = "wake_t"
    /\ hist' = [hist EXCEPT !.timedOut = TRUE]
    /\ UNCHANGED <<m_thread_mutex, m_thread_stop, joinable, envvars, event1,
                   thread_timeout, wait_res, lck_owns, ctxvars, holder, cbSteps,
                   thrown, mpc>>

\* Line 208: a condition variable may wake without a notification.
SpuriousWake ==
    /\ wpc = "blocked"
    /\ wpc' = "wake_n"
    /\ hist' = [hist EXCEPT !.woken = TRUE]
    /\ UNCHANGED <<m_thread_mutex, m_thread_stop, joinable, envvars, event1,
                   thread_timeout, wait_res, lck_owns, ctxvars, holder, cbSteps,
                   thrown, mpc>>

\* Line 208: a woken wait takes the mutex again before it looks at anything.
WaitReacquire ==
    /\ wpc \in {"wake_n", "wake_t"}
    /\ m_thread_mutex = "free"
    /\ m_thread_mutex' = "worker"
    /\ lck_owns' = TRUE
    /\ wpc' = IF wpc = "wake_t" THEN "pred_final" ELSE "pred"
    /\ UNCHANGED <<m_thread_stop, joinable, envvars, event1, thread_timeout, wait_res,
                   ctxvars, holder, cbSteps, thrown, mpc, hist>>

\* Lines 208-210: after a timeout wait_for returns the predicate's value.
WaitPredFinal ==
    /\ wpc = "pred_final"
    /\ \E p \in PredValues :
         /\ wait_res' = WaitCond(p)
         /\ hist' = [hist EXCEPT !.lastPred = p, !.lastFlag = event1,
                                 !.endStop = m_thread_stop, !.setLate = FALSE,
                                 !.dangling = @ \/ (hasPred /\ frame = "dead")]
    /\ wpc' = "check"
    /\ UNCHANGED <<m_thread_mutex, m_thread_stop, joinable, envvars, event1,
                   thread_timeout, lck_owns, ctxvars, holder, cbSteps, thrown, mpc>>

\* Lines 213-216: stop was signalled; return, which destroys lck.
StopExit ==
    /\ wpc = "check"
    /\ StopObserved
    /\ wpc' = "done"
    /\ m_thread_mutex' = "free"
    /\ lck_owns' = FALSE
    /\ UNCHANGED <<m_thread_stop, joinable, envvars, event1, thread_timeout, wait_res,
                   ctxvars, holder, cbSteps, thrown, mpc, hist>>

\* Lines 218-222 and testing-app.cpp:24: fill the context and enter the
\* callback, which first logs was_timeout().
Dispatch ==
    /\ wpc = "check"
    /\ ~StopObserved
    /\ m_was_timeout' = WasTimeoutOf(wait_res)
    /\ m_duration' = thread_timeout
    /\ wpc' = "cb"
    /\ cbSteps' = 0
    /\ hist' = [hist EXCEPT !.logged = WasTimeoutOf(wait_res),
                            !.armedInv = hist.armed, !.armed = FALSE,
                            !.setLate = FALSE,
                            !.dangling = @ \/ frame = "dead",
                            !.cbStop = m_thread_stop]
    /\ UNCHANGED <<m_thread_mutex, m_thread_stop, joinable, envvars, event1,
                   thread_timeout, wait_res, lck_owns, holder, thrown, mpc>>

----------------------------------------------------------------------------
(* The callback fx: the operations of simple_thread_context_intf and of    *)
(* the unlock holder, in any order and number up to MaxCbSteps, and the    *)
(* event handling of the demonstration callback (testing-app.cpp:23-34).   *)

CbStep == wpc = "cb" /\ cbSteps < MaxCbSteps /\ cbSteps' = cbSteps + 1

\* ctx.get_timeout() (lines 132-134).
CbGetTimeout ==
    /\ CbStep
    /\ hist' = [hist EXCEPT !.got = get_timeout, !.woken = FALSE]
    /\ UNCHANGED <<m_thread_mutex, m_thread_stop, joinable, envvars, event1, wpc,
                   thread_timeout, wait_res, lck_owns, ctxvars, holder, thrown, mpc>>

\* ctx.set_timeout(d) (lines 135-137).
CbSetTimeout(d) ==
    /\ CbStep
    /\ m_duration' = d
    /\ hist' = [hist EXCEPT !.lastSet = d, !.got = 0, !.woken = FALSE]
    /\ UNCHANGED <<m_thread_mutex, m_thread_stop, joinable, envvars, event1, wpc,
                   thread_timeout, wait_res, lck_owns, m_was_timeout, holder, thrown,
                   mpc>>

CbUnlock_Unchecked ==
    /\ CbStep
    /\ m_thread_mutex' = "free"
    /\ lck_owns' = FALSE
    /\ holder' = TRUE
    /\ hist' = [hist EXCEPT !.woken = FALSE, !.got = 0, !.refused = ~lck_owns]
    /\ UNCHANGED <<m_thread_stop, joinable, envvars, event1, wpc, thread_timeout,
                   wait_res, ctxvars, thrown, mpc>>
\* ctx.unlock() (lines 145-147, 109-113): the holder's constructor unlocks
\* lck; std::unique_lock::unlock raises std::system_error when lck does not
\* own the mutex, and then no holder comes to exist.
CbUnlock ==
    /\ CbStep
    /\ IF lck_owns
         THEN /\ m_thread_mutex' = "free"
              /\ lck_owns' = FALSE
              /\ holder' = TRUE
              /\ UNCHANGED <<wpc, thrown>>
         ELSE /\ thrown' = TRUE
              /\ wpc' = "cb_exit"
              /\ UNCHANGED <<m_thread_mutex, lck_owns, holder>>
    /\ hist' = [hist EXCEPT !.woken = FALSE, !.got = 0, !.refused = ~lck_owns]
    /\ UNCHANGED <<m_thread_stop, joinable, envvars, event1, thread_timeout, wait_res,
                   ctxvars, mpc>>

\* unlock_holder.reset() (testing-app.cpp:32): destroys the holder, if there
\* is one; its destructor then has to lock the mutex again.
CbReset ==
    /\ CbStep
    /\ wpc' = IF holder THEN "cb_relock" ELSE wpc
    /\ hist' = [hist EXCEPT !.got = 0, !.woken = FALSE]
    /\ UNCHANGED <<m_thread_mutex, m_thread_stop, joinable, envvars, event1,
                   thread_timeout, wait_res, lck_owns, ctxvars, holder, thrown, mpc>>

\* ~simple_thread_unlock_holder_impl (lines 114-117): m_lock.lock().
CbRelock ==
    /\ wpc = "cb_relock"
    /\ m_thread_mutex = "free"
    /\ m_thread_mutex' = "worker"
    /\ lck_owns' = TRUE
    /\ holder' = FALSE
    /\ wpc' = "cb"
    /\ UNCHANGED <<m_thread_stop, joinable, envvars, event1, thread_timeout, wait_res,
                   ctxvars, cbSteps, thrown, mpc, hist>>

\* testing-app.cpp:26-28: if (!ctx.was_timeout() && event1.load())
\* event1.store(false), through the references the callback captured.
CbConsume ==
    /\ CbStep
    /\ ~m_was_timeout
    /\ TRUE \in FlagRead
    /\ \E v \in FlagCleared : event1' = v
    /\ hist' = [hist EXCEPT !.woken = FALSE, !.got = 0, !.armed = FALSE,
                            !.dangling = @ \/ frame = "dead"]
    /\ UNCHANGED <<m_thread_mutex, m_thread_stop, joinable, envvars, wpc,
                   thread_timeout, wait_res, lck_owns, ctxvars, holder, thrown, mpc>>

\* The callback returns (testing-app.cpp:34).
CbReturn ==
    /\ wpc = "cb"
    /\ thrown' = FALSE
    /\ wpc' = "cb_exit"
    /\ hist' = [hist EXCEPT !.got = 0, !.woken = FALSE]
    /\ UNCHANGED <<m_thread_mutex, m_thread_stop, joinable, envvars, event1,
                   thread_timeout, wait_res, lck_owns, ctxvars, holder, cbSteps, mpc>>

\* The callback raises an error (testing-app.cpp:30).
CbThrow ==
    /\ wpc = "cb"
    /\ thrown' = TRUE
    /\ wpc' = "cb_exit"
    /\ hist' = [hist EXCEPT !.got = 0, !.woken = FALSE]
    /\ UNCHANGED <<m_thread_mutex, m_thread_stop, joinable, envvars, event1,
                   thread_timeout, wait_res, lck_owns, ctxvars, holder, cbSteps, mpc>>

CbExit_LeakOnThrow ==
    /\ wpc = "cb_exit"
    /\ IF holder /\ ~thrown
         THEN /\ m_thread_mutex = "free"
              /\ m_thread_mutex' = "worker"
              /\ lck_owns' = TRUE
              /\ holder' = FALSE
         ELSE UNCHANGED <<m_thread_mutex, lck_owns, holder>>
    /\ wpc' = "after"
    /\ cbSteps' = 0
    /\ hist' = [hist EXCEPT !.timedOut = FALSE, !.lastPred = FALSE, !.lastFlag = FALSE,
                            !.logged = FALSE, !.armedInv = FALSE,
                            !.refused = FALSE, !.woken = FALSE, !.cbStop = FALSE]
    /\ UNCHANGED <<m_thread_stop, joinable, envvars, event1, thread_timeout, wait_res,
                   ctxvars, thrown, mpc>>
\* The callback's scope ends, by return or by unwinding: a holder that is
\* still alive is destroyed (lines 114-117), and control is back in the
\* loop (line 222 returns, or the catch clause of line 224 is entered).
CbExit ==
    /\ wpc = "cb_exit"
    /\ IF holder
         THEN /\ m_thread_mutex = "free"
              /\ m_thread_mutex' = "worker"
              /\ lck_owns' = TRUE
              /\ holder' = FALSE
         ELSE UNCHANGED <<m_thread_mutex, lck_owns, holder>>
    /\ wpc' = "after"
    /\ cbSteps' = 0
    /\ hist' = [hist EXCEPT !.timedOut = FALSE, !.lastPred = FALSE, !.lastFlag = FALSE,
                            !.logged = FALSE, !.armedInv = FALSE,
                            !.refused = FALSE, !.woken = FALSE, !.cbStop = FALSE]
    /\ UNCHANGED <<m_thread_stop, joinable, envvars, event1, thread_timeout, wait_res,
                   ctxvars, thrown, mpc>>

LoopTail_EndOnThrow ==
    /\ wpc = "after"
    /\ thread_timeout' = get_new_timeout
    /\ m_thread_mutex' = IF lck_owns THEN "free" ELSE m_thread_mutex
    /\ lck_owns' = FALSE
    /\ wpc' = IF thrown THEN "done" ELSE "lock"
    /\ hist' = [hist EXCEPT
                  !.expectNext = IF hist.lastSet # 0 THEN hist.lastSet ELSE thread_timeout,
                  !.changed = (hist.lastSet # 0 /\ hist.lastSet # thread_timeout),
                  !.lastSet = 0]
    /\ UNCHANGED <<m_thread_stop, joinable, envvars, event1, wait_res, ctxvars, holder,
                   cbSteps, thrown, mpc>>
\* Lines 224-228: an error raised by the callback has been caught and
\* logged; read back the context's timeout; the iteration's scope ends,
\* which destroys ctx and lck (lck unlocks the mutex if it owns it).
LoopTail ==
    /\ wpc = "after"
    /\ thread_timeout' = get_new_timeout
    /\ m_thread_mutex' = IF lck_owns THEN "free" ELSE m_thread_mutex
    /\ lck_owns' = FALSE
    /\ wpc' = "lock"
    /\ hist' = [hist EXCEPT
                  !.expectNext = IF hist.lastSet # 0 THEN hist.lastSet ELSE thread_timeout,
                  !.changed = (hist.lastSet # 0 /\ hist.lastSet # thread_timeout),
                  !.lastSet = 0]
    /\ UNCHANGED <<m_thread_stop, joinable, envvars, event1, wait_res, ctxvars, holder,
                   cbSteps, thrown, mpc>>

----------------------------------------------------------------------------
(* The callers.                                                            *)

\* start(timeout, pred, fx, ax...) or start(timeout, fx, ax...) (lines
\* 182-187, 197-201): m_thread = std::thread(...). The thread runs from here.
Start(t, p) ==
    /\ mpc = "idle"
    /\ frame = "none"
    /\ timeout' = t
    /\ hasPred' = p
    /\ frame' = "live"
    /\ joinable' = TRUE
    /\ wpc' = "init"
    /\ mpc' = "in_start"
    /\ UNCHANGED <<m_thread_mutex, m_thread_stop, event1, thread_timeout, wait_res,
                   lck_owns, ctxvars, holder, cbSteps, thrown, second, apc, hist>>

\* Line 230: start() returns; its parameters and the temporaries of the
\* calling expression (testing-app.cpp:18-36) end their lifetime.
StartReturn ==
    /\ mpc = "in_start"
    /\ mpc' = "idle"
    /\ frame' = "dead"
    /\ timeout' = 0
    /\ UNCHANGED <<m_thread_mutex, m_thread_stop, joinable, hasPred, event1,
                   wpc, thread_timeout, wait_res, lck_owns, ctxvars, holder, cbSteps,
                   thrown, second, apc, hist>>

CallerFree(c) == c = "main" => mpc = "idle"

\* The timeout of the worker's current wait has expired and the callback of
\* that cycle is not entered yet.
TimedOutWait == hist.timedOut /\ wpc \in {"wake_t", "pred_final", "check"}

\* event1.store(true) (testing-app.cpp:40), from any thread.
SetEvent(c) ==
    /\ CallerFree(c)
    /\ ~event1
    /\ event1' = TRUE
    /\ hist' = [hist EXCEPT !.setLate = TimedOutWait, !.armed = FALSE]
    /\ UNCHANGED <<m_thread_mutex, m_thread_stop, joinable, envvars, wpc,
                   thread_timeout, wait_res, lck_owns, ctxvars, holder, cbSteps,
                   thrown, mpc>>

\* notify() (lines 245-248): m_thread_cv.notify_one(), taking no lock.
Notify(c) ==
    /\ CallerFree(c)
    /\ wpc' = NotifiedPc
    /\ hist' = [hist EXCEPT
                  !.armed = @ \/ (event1 /\ ~hist.setLate /\ ~TimedOutWait),
                  !.woken = @ \/ wpc = "blocked"]
    /\ UNCHANGED <<m_thread_mutex, m_thread_stop, joinable, envvars, event1,
                   thread_timeout, wait_res, lck_owns, ctxvars, holder, cbSteps,
                   thrown, mpc>>

\* stop() is called (line 233; also from ~simple_thread, lines 249-252).
StopCall ==
    /\ mpc = "idle"
    /\ mpc' = "stop_lock"
    /\ hist' = [hist EXCEPT !.stopMidCb = wpc \in InCallback]
    /\ UNCHANGED <<m_thread_mutex, m_thread_stop, joinable, envvars, event1, wpc,
                   thread_timeout, wait_res, lck_owns, ctxvars, holder, cbSteps,
                   thrown>>

StopLock_NoLock ==
    /\ mpc = "stop_lock"
    /\ mpc' = "stop_set"
    /\ UNCHANGED <<m_thread_mutex, m_thread_stop, joinable, envvars, event1, wpc,
                   thread_timeout, wait_res, lck_owns, ctxvars, holder, cbSteps,
                   thrown, hist>>
\* Line 236: std::scoped_lock lck(m_thread_mutex).
StopLock ==
    /\ mpc = "stop_lock"
    /\ m_thread_mutex = "free"
    /\ m_thread_mutex' = "main"
    /\ mpc' = "stop_set"
    /\ UNCHANGED <<m_thread_stop, joinable, envvars, event1, wpc, thread_timeout,
                   wait_res, lck_owns, ctxvars, holder, cbSteps, thrown, hist>>

\* Lines 237-238: m_thread_stop = true; the scoped_lock's scope ends.
StopSet ==
    /\ mpc = "stop_set"
    /\ m_thread_stop' = TRUE
    /\ m_thread_mutex' = "free"
    /\ mpc' = "stop_notify"
    /\ UNCHANGED <<joinable, envvars, event1, wpc, thread_timeout, wait_res, lck_owns,
                   ctxvars, holder, cbSteps, thrown, hist>>

StopNotify_Forgotten ==
    /\ mpc = "stop_notify"
    /\ mpc' = "stop_joinable"
    /\ UNCHANGED <<m_thread_mutex, m_thread_stop, joinable, envvars, event1, wpc,
                   thread_timeout, wait_res, lck_owns, ctxvars, holder, cbSteps,
                   thrown, hist>>
\* Line 239: m_thread_cv.notify_one().
StopNotify ==
    /\ mpc = "stop_notify"
    /\ wpc' = NotifiedPc
    /\ mpc' = "stop_joinable"
    /\ hist' = [hist EXCEPT !.woken = @ \/ wpc = "blocked"]
    /\ UNCHANGED <<m_thread_mutex, m_thread_stop, joinable, envvars, event1,
                   thread_timeout, wait_res, lck_owns, ctxvars, holder, cbSteps,
                   thrown>>

StopJoinable_Always ==
    /\ mpc = "stop_joinable"
    /\ mpc' = "stop_join"
    /\ UNCHANGED <<m_thread_mutex, m_thread_stop, joinable, envvars, event1, wpc,
                   thread_timeout, wait_res, lck_owns, ctxvars, holder, cbSteps,
                   thrown, hist>>
\* Line 240: if (m_thread.joinable()); otherwise stop() returns.
StopJoinable ==
    /\ mpc = "stop_joinable"
    /\ mpc' = IF joinable THEN "stop_join" ELSE "idle"
    /\ hist' = [hist EXCEPT !.stopMidCb = @ /\ joinable]
    /\ UNCHANGED <<m_thread_mutex, m_thread_stop, joinable, envvars, event1, wpc,
                   thread_timeout, wait_res, lck_owns, ctxvars, holder, cbSteps,
                   thrown>>

StopJoin_NoWait ==
    /\ mpc = "stop_join"
    /\ joinable' = FALSE
    /\ mpc' = "idle"
    /\ hist' = [hist EXCEPT !.joins = IF @ < MaxJoins THEN @ + 1 ELSE @]
    /\ UNCHANGED <<m_thread_mutex, m_thread_stop, envvars, event1, wpc,
                   thread_timeout, wait_res, lck_owns, ctxvars, holder, cbSteps,
                   thrown>>
\* Line 241: m_thread.join() returns once the thread has ended; stop() returns.
StopJoin ==
    /\ mpc = "stop_join"
    /\ wpc = "done"
    /\ joinable' = FALSE
    /\ mpc' = "idle"
    /\ hist' = [hist EXCEPT !.joins = IF @ < MaxJoins THEN @ + 1 ELSE @,
                            !.stopMidCb = FALSE]
    /\ UNCHANGED <<m_thread_mutex, m_thread_stop, envvars, event1, wpc,
                   thread_timeout, wait_res, lck_owns, ctxvars, holder, cbSteps,
                   thrown>>

----------------------------------------------------------------------------
(* Specifications.                                                         *)

\* The steps the worker thread takes by itself.
WorkerRun ==
    \/ ThreadInit
    \/ Lock
    \/ WaitPred
    \/ WaitBlock
    \/ WaitReacquire
    \/ WaitPredFinal
    \/ StopExit
    \/ Dispatch
    \/ CbGetTimeout
    \/ \E d \in Timeouts : CbSetTimeout(d)
    \/ CbUnlock
    \/ CbReset
    \/ CbRelock
    \/ CbConsume
    \/ CbReturn
    \/ CbThrow
    \/ CbExit
    \/ LoopTail

\* The steps of a stop() call in progress.
StopRun ==
    \/ StopLock
    \/ StopSet
    \/ StopNotify
    \/ StopJoinable
    \/ StopJoin

Next ==
    \/ WorkerRun
    \/ TimeoutExpires
    \/ SpuriousWake
    \/ \E t \in Timeouts, p \in BOOLEAN : Start(t, p)
    \/ StartReturn
    \/ \E c \in Callers : SetEvent(c)
    \/ \E c \in Callers : Notify(c)
    \/ StopCall
    \/ StopRun

Spec == Init /\ [][Next]_vars

\* Every thread that can run keeps running, and a stop() that asks for the
\* mutex gets it if the mutex is free again and again (std::mutex promises
\* no order among contenders; without this the loop could retake the mutex
\* at line 205 for ever).  Timeouts, spurious wakes and the callers'
\* decisions to call an operation are not forced.
SpecFair == Spec /\ WF_vars(WorkerRun) /\ SF_vars(StopRun)

----------------------------------------------------------------------------
(* start() on an instance whose thread is still joinable.                  *)

\* Lines 197-201, a second time: std::thread(...) is constructed first, so a
\* second thread begins to execute the loop lambda on the same members.
StartAgain ==
    /\ mpc = "idle"
    /\ joinable
    /\ second = "none"
    /\ second' = "running"
    /\ mpc' = "start_assign"
    /\ UNCHANGED <<m_thread_mutex, m_thread_stop, joinable, frame, timeout,
                   hasPred, event1, wpc, thread_timeout, wait_res, lck_owns,
                   ctxvars, holder, cbSteps, thrown, apc, hist>>

\* Line 201, a second time: the new thread is move-assigned to m_thread,
\* which is joinable; std::thread::operator= then calls std::terminate.
StartAssign ==
    /\ mpc = "start_assign"
    /\ second = "running"
    /\ second' = "terminated"
    /\ UNCHANGED <<m_thread_mutex, m_thread_stop, joinable, frame, timeout,
                   hasPred, event1, wpc, thread_timeout, wait_res, lck_owns,
                   ctxvars, holder, cbSteps, thrown, mpc, apc, hist>>

NextDoubleStart ==
    \/ second # "terminated" /\ Next
    \/ StartAgain
    \/ StartAssign

SpecDoubleStart == Init /\ [][NextDoubleStart]_vars

----------------------------------------------------------------------------
(* stop() called by a second thread while main may be inside stop() too.   *)

OtherStopCall ==
    /\ apc = "idle"
    /\ apc' = "stop_lock"
    /\ UNCHANGED <<m_thread_mutex, m_thread_stop, joinable, frame, timeout,
                   hasPred, event1, wpc, thread_timeout, wait_res, lck_owns,
                   ctxvars, holder, cbSteps, thrown, mpc, second, hist>>

\* Line 236.
OtherStopLock ==
    /\ apc = "stop_lock"
    /\ m_thread_mutex = "free"
    /\ m_thread_mutex' = "other"
    /\ apc' = "stop_set"
    /\ UNCHANGED <<m_thread_stop, joinable, frame, timeout, hasPred, event1,
                   wpc, thread_timeout, wait_res, lck_owns, ctxvars, holder,
                   cbSteps, thrown, mpc, second, hist>>

\* Lines 237-238.
OtherStopSet ==
    /\ apc = "stop_set"
    /\ m_thread_stop' = TRUE
    /\ m_thread_mutex' = "free"
    /\ apc' = "stop_notify"
    /\ UNCHANGED <<joinable, frame, timeout, hasPred, event1, wpc,
                   thread_timeout, wait_res, lck_owns, ctxvars, holder,
                   cbSteps, thrown, mpc, second, hist>>

\* Line 239.
OtherStopNotify ==
    /\ apc = "stop_notify"
    /\ wpc' = NotifiedPc
    /\ apc' = "stop_joinable"
    /\ hist' = [hist EXCEPT !.woken = @ \/ wpc = "blocked"]
    /\ UNCHANGED <<m_thread_mutex, m_thread_stop, joinable, frame, timeout,
                   hasPred, event1, thread_timeout, wait_res, lck_owns,
                   ctxvars, holder, cbSteps, thrown, mpc, second>>

\* Line 240: joinable() is read with no lock held.
OtherStopJoinable ==
    /\ apc = "stop_joinable"
    /\ apc' = IF joinable THEN "stop_join" ELSE "idle"
    /\ UNCHANGED <<m_thread_mutex, m_thread_stop, joinable, frame, timeout,
                   hasPred, event1, wpc, thread_timeout, wait_res, lck_owns,
                   ctxvars, holder, cbSteps, thrown, mpc, second, hist>>

\* Line 241: join().  If main has joined the thread in the meantime, this
\* join() is made on a thread object that is no longer joinable, in a race
\* with main's: it raises std::system_error out of stop(), or joins the
\* same thread a second time.
OtherStopJoin ==
    /\ apc = "stop_join"
    /\ wpc = "done"
    /\ \/ /\ apc' = "idle"
          /\ joinable' = FALSE
          /\ hist' = [hist EXCEPT !.joins = IF @ < MaxJoins THEN @ + 1 ELSE @]
       \/ /\ ~joinable
          /\ apc' = "failed"
          /\ UNCHANGED <<joinable, hist>>
    /\ UNCHANGED <<m_thread_mutex, m_thread_stop, frame, timeout, hasPred,
                   event1, wpc, thread_timeout, wait_res, lck_owns, ctxvars,
                   holder, cbSteps, thrown, mpc, second>>

OtherStopRun ==
    \/ OtherStopCall
    \/ OtherStopLock
    \/ OtherStopSet
    \/ OtherStopNotify
    \/ OtherStopJoinable
    \/ OtherStopJoin

NextTwoStops ==
    \/ Next
    \/ OtherStopRun

SpecTwoStops == Init /\ [][NextTwoStops]_vars

TypeOK ==
    /\ m_thread_mutex \in {"free", "worker", "main", "other"}
    /\ m_thread_stop \in BOOLEAN
    /\ joinable \in BOOLEAN
    /\ frame \in {"none", "live", "dead"}
    /\ timeout \in 0..MaxTimeout
    /\ hasPred \in BOOLEAN
    /\ event1 \in BOOLEAN
    /\ wpc \in WorkerPcs
    /\ thread_timeout \in 0..MaxTimeout
    /\ wait_res \in BOOLEAN
    /\ lck_owns \in BOOLEAN
    /\ m_was_timeout \in BOOLEAN
    /\ m_duration \in 0..MaxTimeout
    /\ holder \in BOOLEAN
    /\ cbSteps \in 0..MaxCbSteps
    /\ thrown \in BOOLEAN
    /\ mpc \in MainPcs
    /\ second \in {"none", "running", "terminated"}
    /\ apc \in OtherPcs

----------------------------------------------------------------------------
(* Properties.                                                             *)
(*                                                                         *)
(* hist records: timedOut - the timeout of the current wait has expired;   *)
(* lastPred, lastFlag - what pred() returned at its last evaluation and    *)
(* what event1 held then; endStop - m_thread_stop when the wait ended;     *)
(* logged - was_timeout() as the callback logged it on entry; lastSet -    *)
(* the last value given to set_timeout in this invocation (0: none); got - *)
(* the value get_timeout just returned (0: not just called); expectNext -  *)
(* lastSet of the last invocation, or its timeout if lastSet was 0;        *)
(* changed - that invocation set a timeout different from its own;         *)
(* setLate - event1 was set after the timeout of the current wait had      *)
(* expired, before the callback of that cycle was entered; armed - event1  *)
(* was set, not late, and notify() called after it, not in such a window   *)
(* either, and since then event1 was not cleared and no callback entered;  *)
(* armedInv - armed, at the entry of the running callback; refused - the   *)
(* last unlock() of the running callback found the lock not held;          *)
(* dangling - the worker has used timeout, pred, fx or the callback's      *)
(* captures after start() had returned; joins - the number of completed    *)
(* m_thread.join() calls, counted up to MaxJoins; stopMidCb - the stop()   *)
(* call in progress was made while a callback invocation was running;      *)
(* woken - a notification or a spurious wake has ended a blocking of the   *)
(* current wait (kept until the callback's first operation); cbStop - the  *)
(* stop flag was set when the running callback invocation was entered.     *)

\* C1: once stop() is called on a started worker from another thread, the
\* worker thread leaves its loop and stop() returns after joining it,
\* wherever the worker was (waiting, between cycles, inside a callback with
\* the lock held or released), given that callbacks return.
C1_StopTerminates ==
    (mpc = "stop_lock" /\ joinable) ~> (mpc = "idle" /\ wpc = "done" /\ ~joinable)

\* stop() has set the flag and notified and waits in join while the worker
\* is inside a callback with the lock released through a holder.
C1_Witness == mpc = "stop_join" /\ wpc = "cb" /\ holder /\ m_thread_stop

\* C2: when the flag of the predicate was set and notify() called after it,
\* the worker is not left sleeping on the condition variable (where only the
\* expiry of the timeout would wake it).  Stated for waits whose last
\* predicate evaluation returned what event1 held.
C2_NotifyNeverLost ==
    ~(hasPred /\ wpc = "blocked" /\ event1 /\ hist.armed
        /\ hist.lastPred = hist.lastFlag)

\* C3: for a worker with a predicate bound to event1, the first callback
\* invocation entered after event1 was set and notify() called, both before
\* the timeout of the worker's wait expired, logs was_timeout() = false.
C3_NextInvocationNotTimeout ==
    (hasPred /\ wpc \in InCallback /\ hist.armedInv) => ~hist.logged

C5_StopWakesWait ==
    m_thread_stop =>
        /\ wpc # "block_enter"
        /\ (mpc # "stop_notify" => wpc # "blocked")

\* stop() woke a wait whose timeout had not expired.
C5_Witness ==
    m_thread_stop /\ mpc = "stop_joinable" /\ wpc = "wake_n" /\ ~hist.timedOut

\* C6: a wait that ends with the stop flag set is followed by the end of
\* the loop, never by a callback invocation, also when the predicate is
\* true or the timeout has expired.
C6_NoCallbackOnStopWake ==
    hist.endStop => wpc \in {"check", "done"}

\* The loop ended on a wait that timed out with the predicate true and the
\* stop flag set.
C6_Witness == wpc = "done" /\ hist.endStop /\ hist.lastPred /\ hist.timedOut

\* C7: the worker thread ends only by observing the stop flag at the end of
\* a wait; an invocation that raised an error is followed by the next wait
\* and further invocations.
C7_ErrorKeepsLoop ==
    /\ wpc = "done" => (hist.endStop /\ m_thread_stop)
    /\ (wpc = "after" /\ thrown) => ~hist.endStop

\* The callback runs again after the previous invocation raised an error.
C7_Witness == wpc = "cb" /\ thrown /\ cbSteps = 0

\* C8: after an invocation, the timeout of the next wait is the last value
\* that invocation gave to set_timeout, or that invocation's timeout if it
\* gave none, whether or not the invocation raised an error; it stays so
\* through that wait and the following invocation, whatever set_timeout is
\* called with there, until the loop reads the context back.
C8_NextTimeout ==
    hist.expectNext # 0 => thread_timeout = hist.expectNext

\* A wait runs after an invocation that changed the timeout and then raised.
C8_Witness == wpc = "blocked" /\ hist.changed /\ thrown

\* C9: whenever get_timeout() is called in a callback, it returns the
\* timeout of the wait that just completed.
C9_GetTimeoutIsActive ==
    (wpc \in InCallback /\ hist.got # 0) => hist.got = thread_timeout

\* C10: the worker holds the lock when the callback is entered and when
\* control is back in the loop, by return or by error; inside the callback
\* it does not hold the lock exactly while a holder is alive.
C10_LockAroundCallback ==
    /\ (wpc = "cb" /\ cbSteps = 0) => (lck_owns /\ m_thread_mutex = "worker")
    /\ wpc = "after" => (lck_owns /\ m_thread_mutex = "worker")
    /\ wpc \in InCallback =>
         /\ holder <=> ~lck_owns
         /\ lck_owns <=> m_thread_mutex = "worker"

\* stop() holds the mutex while the callback runs with a live holder.
C10_Witness == wpc = "cb" /\ holder /\ m_thread_mutex = "main"

\* C11: inside a callback, whatever unlock() calls, holder resets and holder
\* drops it makes, the mutex is unlocked by the worker only while the worker
\* holds it and locked by the worker only while the worker does not hold it;
\* an unlock() made while a holder is alive is refused with an error and
\* touches nothing; a holder comes to exist by exactly one unlock and ends
\* by exactly one lock; a reset without a live holder changes nothing.
C11_HolderDiscipline ==
    [][ /\ (lck_owns /\ ~lck_owns') =>
             (m_thread_mutex = "worker" /\ m_thread_mutex' = "free")
        /\ (~lck_owns /\ lck_owns') =>
             (m_thread_mutex = "free" /\ m_thread_mutex' = "worker")
        /\ (m_thread_mutex = "main" /\ m_thread_mutex' # "main") =>
             (mpc = "stop_set" /\ mpc' = "stop_notify")
        /\ (wpc \in InCallback /\ ~holder /\ holder') => (lck_owns /\ ~lck_owns')
        /\ (wpc \in InCallback /\ holder /\ ~holder') => (~lck_owns /\ lck_owns')
        /\ (wpc \in InCallback /\ holder' = holder) =>
             (lck_owns' = lck_owns
                /\ (mpc' = mpc => m_thread_mutex' = m_thread_mutex))
        /\ (~hist.refused /\ hist'.refused) =>
             (holder /\ holder' /\ thrown' /\ wpc' = "cb_exit")
      ]_vars

\* A second unlock() was refused while the first holder is still alive and
\* about to be dropped by the unwinding.
C11_Witness == wpc = "cb_exit" /\ hist.refused /\ holder /\ ~lck_owns /\ thrown

\* C12: once start() has returned, the worker thread never reads the
\* timeout, the predicate, the callback or what the callback captured
\* through start()'s call frame or the caller's temporaries.
C12_NoDanglingRead == ~hist.dangling

\* C13: a stop() called when the stop flag is already set (a second or
\* later call, or a call after the worker has exited) or on an instance
\* that was never started returns, and leaves the flag set and the thread
\* not joinable; stop() waits in join only for a joinable thread, and the
\* thread is joined at most once over any number of stop() calls.
C13_StopIdempotent ==
    /\ [](hist.joins <= 1 /\ (mpc = "stop_join" => joinable))
    /\ (mpc = "stop_lock" /\ (m_thread_stop \/ frame = "none"))
          ~> (mpc = "idle" /\ m_thread_stop /\ ~joinable)

\* A later stop() is at its joinable test after the thread was joined.
C13_Witness == mpc = "stop_joinable" /\ ~joinable /\ hist.joins = 1 /\ wpc = "done"

\* C14: a stop() called while a callback invocation is running returns only
\* when the worker thread has ended and has been joined; the worker leaves
\* a running invocation only through the invocation's end (never cut
\* short), and ends only at the stop test after a wait, holding nothing.
C14_StopWaitsForCallback ==
    [][ /\ (hist.stopMidCb /\ mpc # "idle" /\ mpc' = "idle") =>
             (wpc = "done" /\ ~joinable' /\ ~holder /\ ~lck_owns)
        /\ (wpc \in InCallback /\ wpc' \notin InCallback) => wpc' = "after"
        /\ (wpc # "done" /\ wpc' = "done") =>
             (wpc = "check" /\ m_thread_stop /\ m_thread_mutex' = "free")
      ]_vars

\* stop() was called during an invocation and waits in join; the worker has
\* finished the invocation and ended.
C14_Witness == hist.stopMidCb /\ mpc = "stop_join" /\ wpc = "done"

\* C15: for a worker started without a predicate, a wait ends in a callback
\* invocation only after its timeout has expired, whatever notifications or
\* spurious wakes come before; the invocation sees was_timeout() = true;
\* while no expiry has happened the worker stays in the wait.
C15_NoPredOnlyTimeout ==
    ~hasPred =>
        /\ wpc \in InCallback =>
              (hist.timedOut /\ hist.logged /\ m_was_timeout /\ ~wait_res)
        /\ (wpc = "check" /\ ~m_thread_stop) => (hist.timedOut /\ ~wait_res)
        /\ wpc \in {"pred", "block_enter", "blocked", "wake_n"} => ~hist.timedOut

\* An invocation without predicate, after a wait that was woken by a
\* notification before its timeout expired.
C15_Witness ==
    ~hasPred /\ wpc = "cb" /\ cbSteps = 0 /\ hist.woken /\ hist.timedOut /\ m_was_timeout

\* C16: the stop flag is written only by stop() while it holds the mutex,
\* and that write is followed at once by stop()'s notification; the worker
\* holds the mutex wherever it reads the flag: at each evaluation of the
\* wait condition and at the test after the wait.
C16_FlagUnderLock ==
    /\ [](/\ wpc \in {"pred", "block_enter", "pred_final", "check"} =>
               (lck_owns /\ m_thread_mutex = "worker")
          /\ mpc = "stop_set" => m_thread_mutex = "main"
          /\ mpc = "stop_notify" => m_thread_stop)
    /\ [][ m_thread_stop' # m_thread_stop =>
             (m_thread_mutex = "main" /\ mpc = "stop_set" /\ mpc' = "stop_notify"
                /\ m_thread_stop' /\ ~lck_owns) ]_vars

\* The worker reads the flag at the test after a wait, holding the mutex,
\* after stop() has written it and before stop() has notified.
C16_Witness ==
    wpc = "check" /\ m_thread_stop /\ hist.endStop /\ mpc = "stop_notify" /\ lck_owns

\* C17: whatever start() calls are made on one instance, at most one thread
\* runs the loop on the instance's mutex, flag and condition variable.
C17_SingleWorker ==
    ~(second = "running" /\ wpc \notin {"idle", "done"})

\* C20: with stop() running in two threads at once, the two calls are never
\* both past the joinable test on their way to join the same thread, the
\* thread is joined at most once, and neither call fails.
C20_JoinedOnce ==
    /\ ~(mpc = "stop_join" /\ apc = "stop_join")
    /\ hist.joins <= 1
    /\ apc # "failed"

\* C18: no callback invocation is entered with the stop flag set, so an
\* invocation that runs while the flag is set was entered before the flag
\* was written; once a stop() has joined the thread, the worker has ended
\* and stays so.
C18_NoCallbackAfterStop ==
    /\ wpc \in InCallback => ~hist.cbStop
    /\ hist.joins >= 1 => (wpc = "done" /\ ~joinable /\ m_thread_stop)
    /\ (m_thread_stop /\ wpc \in {"check", "after"}) => lck_owns

\* The flag was written while an invocation entered earlier runs with the
\* lock released; the invocation goes on and is about to lock again.
C18_Witness ==
    wpc = "cb_relock" /\ m_thread_stop /\ ~hist.cbStop /\ mpc = "stop_joinable"

\* C19: when pred() returns true at an evaluation made with the stop flag
\* clear, the wait ends there with result true, without blocking, and the
\* callback entered next sees was_timeout() = false; this repeats cycle
\* after cycle with no notify(); the worker blocks in a wait only after an
\* evaluation at which pred() returned false.
C19_LevelTriggered ==
    /\ wpc \in {"block_enter", "blocked", "wake_n", "wake_t"} => ~hist.lastPred
    /\ (wpc = "check" /\ hist.lastPred) => wait_res
    /\ (wpc \in InCallback /\ hist.lastPred) => (~m_was_timeout /\ ~hist.logged)

\* A second or later invocation in a row is entered with the flag still
\* true, after a wait that never blocked and that nothing notified.
C19_Witness ==
    /\ wpc = "cb" /\ cbSteps = 0 /\ hist.expectNext # 0
    /\ hist.lastPred /\ hist.lastFlag /\ ~hist.timedOut /\ ~hist.woken
    /\ ~m_was_timeout

====
